---- MODULE Spec2Model ----
(***************************************************************************)
(* Lip-sync engine of the avatar front end: word timings are normalised    *)
(* onto one absolute timeline (normalizeWordsToAbsolute), converted to     *)
(* viseme events (tokenizeIPA, compressTokens, wordToVisemeEvents),        *)
(* curated (makeEventKey, decimateTimeline, pushWordsToTimeline), and      *)
(* played by the per-frame scheduler (promoteDueEvents, useFrame), under   *)
(* the playback-start / playback-stop signals of the TTS audio worklet.    *)
(*                                                                         *)
(* Times are integers counted in 1/240 ms (MS units per millisecond): for  *)
(* word times that are whole milliseconds every quotient the allocator     *)
(* takes (span / n with n <= 4, a half slot, 0.9 of a half slot, 40% of a  *)
(* duration) is then an integer, so the arithmetic below is exact.         *)
(* Intensities are integers counted in 1/10000 (ONE is intensity 1.0).     *)
(*                                                                         *)
(* IPA characters are written with ASCII names:                            *)
(*   ae = U+00E6, script_a = U+0251, turned_a = U+0250,                    *)
(*   turned_script_a = U+0252, epsilon = U+025B, small_I = U+026A,         *)
(*   open_o = U+0254, upsilon = U+028A, schwa = U+0259, turned_v = U+028C, *)
(*   schwa_hook = U+025A, rev_eps_hook = U+025D, rev_eps = U+025C,         *)
(*   flap = U+027E, glottal = U+0294, esh = U+0283, ezh = U+0292,          *)
(*   eng = U+014B, turned_r = U+0279, theta = U+03B8, eth = U+00F0,        *)
(*   script_g = U+0261, tesh_lig = U+02A7, dezh_lig = U+02A4,              *)
(*   stress1 = U+02C8, stress2 = U+02CC, length = U+02D0,                  *)
(*   tie = U+0361, tie_below = U+035C, nasal_mark = U+0303.                *)
(* A phoneme string is a sequence of characters, a token a sequence of one *)
(* or two characters.                                                      *)
(***************************************************************************)
EXTENDS Integers, Sequences, FiniteSets, TLC

MS == 16 * 3 * 5
ONE == 100 * 100

\* a nullable number is the empty sequence (null) or the one-element sequence
\* holding the number
Null == <<>>
Some(x) == <<x>>

Max(a, b) == IF a >= b THEN a ELSE b
Min(a, b) == IF a <= b THEN a ELSE b

(***************************************************************************)
(* Lookup tables of the phoneme converter.                                 *)
(***************************************************************************)
C_MAP ==
  [ p |-> "viseme_PP", b |-> "viseme_PP", m |-> "viseme_PP",
    f |-> "viseme_FF", v |-> "viseme_FF",
    t |-> "viseme_DD", d |-> "viseme_DD", flap |-> "viseme_DD", glottal |-> "viseme_DD",
    s |-> "viseme_SS", z |-> "viseme_SS", esh |-> "viseme_SS", ezh |-> "viseme_SS",
    k |-> "viseme_kk", g |-> "viseme_kk",
    n |-> "viseme_nn", eng |-> "viseme_nn",
    l |-> "viseme_RR", r |-> "viseme_RR", turned_r |-> "viseme_RR",
    theta |-> "viseme_TH", eth |-> "viseme_TH",
    w |-> "viseme_U", j |-> "viseme_I", h |-> "viseme_E" ]

\* the two-character keys of C_MAP
C_MAP2 == { <<"t", "esh">>, <<"d", "ezh">> }

V_MAP ==
  [ a |-> "viseme_aa", ae |-> "viseme_aa", script_a |-> "viseme_aa",
    turned_a |-> "viseme_aa", turned_script_a |-> "viseme_aa",
    e |-> "viseme_E", epsilon |-> "viseme_E",
    i |-> "viseme_I", small_I |-> "viseme_I",
    o |-> "viseme_O", open_o |-> "viseme_O",
    u |-> "viseme_U", upsilon |-> "viseme_U",
    schwa |-> "viseme_E", turned_v |-> "viseme_E",
    schwa_hook |-> "viseme_E", rev_eps_hook |-> "viseme_E" ]

DIPHTHONGS ==
  { <<"a", "small_I">>, <<"e", "small_I">>, <<"o", "upsilon">>, <<"a", "upsilon">>,
    <<"open_o", "small_I">>,
    <<"small_I", "schwa">>, <<"e", "schwa">>, <<"upsilon", "schwa">>,
    <<"t", "esh">>, <<"d", "ezh">> }

KOKORO_UPPER_FIXES ==
  [ O |-> "o", W |-> "w", A |-> "a", E |-> "e", I |-> "i", U |-> "u", Y |-> "y" ]

\* upper-case letters outside KOKORO_UPPER_FIXES, with their lower case
OtherUpper == [ T |-> "t", K |-> "k" ]

VOWELS ==
  { "a", "ae", "script_a", "turned_a", "turned_script_a", "e", "epsilon", "i", "small_I",
    "o", "open_o", "u", "upsilon", "schwa", "turned_v", "rev_eps", "schwa_hook",
    "rev_eps_hook" }

RHOTICS == { "r", "turned_r" }

\* characters removed by steps 4, 5, 6 and 8 of normalizePhonemeString
ProsodyMarks == { "stress1", "stress2", ".", "length" }
TieBars == { "tie", "tie_below" }
CombiningMarks == { "nasal_mark" }
Whitespace == { " " }

\* the characters the tokenizer skips (step 3 of tokenizeIPA)
TokenizerSkips == { " ", ",", ";", ":", "!", "?", "-" }

InCMap(c) == c \in DOMAIN C_MAP
InVMap(c) == c \in DOMAIN V_MAP

(***************************************************************************)
(* normalizePhonemeString: every step is a replacement of single           *)
(* characters, and no step produces a character a later step rewrites, so  *)
(* the eight steps compose to one expansion per character.                 *)
(***************************************************************************)
NormalizeChar(c) ==
  IF c = "script_g" THEN <<"g">>
  ELSE IF c = "tesh_lig" THEN <<"t", "esh">>
  ELSE IF c = "dezh_lig" THEN <<"d", "ezh">>
  ELSE IF c = "schwa_hook" THEN <<"schwa", "turned_r">>
  ELSE IF c = "rev_eps_hook" THEN <<"rev_eps", "turned_r">>
  ELSE IF c \in ProsodyMarks \cup TieBars \cup CombiningMarks THEN <<>>
  ELSE IF c \in DOMAIN KOKORO_UPPER_FIXES THEN <<KOKORO_UPPER_FIXES[c]>>
  ELSE IF c \in DOMAIN OtherUpper THEN <<OtherUpper[c]>>
  ELSE IF c \in Whitespace THEN <<>>
  ELSE <<c>>

RECURSIVE normalizePhonemeString(_)
normalizePhonemeString(s) ==
  IF s = <<>> THEN <<>>
  ELSE NormalizeChar(Head(s)) \o normalizePhonemeString(Tail(s))

RECURSIVE TokenizeFrom(_, _)
TokenizeFrom(str, i) ==
  IF i > Len(str) THEN <<>>
  ELSE LET ch == str[i]
           hasNext == i + 1 <= Len(str)
           two == IF hasNext THEN <<ch, str[i + 1]>> ELSE <<>>
       IN IF two \in DIPHTHONGS THEN <<two>> \o TokenizeFrom(str, i + 2)
          ELSE IF ch \in VOWELS /\ hasNext /\ str[i + 1] \in RHOTICS
            THEN <<two>> \o TokenizeFrom(str, i + 2)
          ELSE IF ch \in TokenizerSkips THEN TokenizeFrom(str, i + 1)
          ELSE <<<<ch>>>> \o TokenizeFrom(str, i + 1)

tokenizeIPA(s) == TokenizeFrom(normalizePhonemeString(s), 1)

\* mutant: no fallback, an unresolved token yields no shape
resolveTokenToVisemes_NoFallback(token) ==
  IF token \in DIPHTHONGS /\ token \in C_MAP2 THEN <<"viseme_CH">>
  ELSE IF token \in DIPHTHONGS /\ InVMap(token[1]) /\ InVMap(token[2])
    THEN <<V_MAP[token[1]], V_MAP[token[2]]>>
  ELSE IF Len(token) = 2 /\ token[1] \in VOWELS /\ token[2] \in RHOTICS /\ InVMap(token[1])
    THEN <<V_MAP[token[1]], "viseme_RR">>
  ELSE IF token \in C_MAP2 THEN <<"viseme_CH">>
  ELSE IF Len(token) = 1 /\ InCMap(token[1]) THEN <<C_MAP[token[1]]>>
  ELSE IF Len(token) = 1 /\ InVMap(token[1]) THEN <<V_MAP[token[1]]>>
  ELSE <<>>

resolveTokenToVisemes(token) ==
  IF token \in DIPHTHONGS /\ token \in C_MAP2 THEN <<"viseme_CH">>
  ELSE IF token \in DIPHTHONGS /\ InVMap(token[1]) /\ InVMap(token[2])
    THEN <<V_MAP[token[1]], V_MAP[token[2]]>>
  ELSE IF Len(token) = 2 /\ token[1] \in VOWELS /\ token[2] \in RHOTICS /\ InVMap(token[1])
    THEN <<V_MAP[token[1]], "viseme_RR">>
  ELSE IF token \in C_MAP2 THEN <<"viseme_CH">>
  ELSE IF Len(token) = 1 /\ InCMap(token[1]) THEN <<C_MAP[token[1]]>>
  ELSE IF Len(token) = 1 /\ InVMap(token[1]) THEN <<V_MAP[token[1]]>>
  ELSE <<"viseme_E">>

(***************************************************************************)
(* Timing constants of the allocator.                                      *)
(***************************************************************************)
MIN_SLOT == 100 * MS
WORD_EVENT_CAP == 4
KEEP_AT_LEAST == 2
MIN_DUR == 80 * MS
MAX_DUR == 180 * MS
ATTACK == 30 * MS
DECAY == 40 * MS
\* SPLIT_OVERLAP = 0.9, as a fraction
SPLIT_OVERLAP_NUM == 9
SPLIT_OVERLAP_DEN == 10

DROPPABLE == { <<"h">>, <<"flap">>, <<"glottal">> }
LABIALS == { <<"p">>, <<"b">>, <<"m">> }
AFFRIC == { <<"t", "esh">>, <<"d", "ezh">> }
SIBILANTS == { <<"s">>, <<"z">>, <<"esh">>, <<"ezh">>, <<"f">>, <<"v">>, <<"theta">>, <<"eth">> }
LIQUIDS == { <<"l">>, <<"r">>, <<"turned_r">> }
NASALS == { <<"n">>, <<"eng">> }

isVowelToken(t) ==
  \/ Len(t) = 1 /\ InVMap(t[1])
  \/ InVMap(t[1]) /\ (Len(t) = 1 \/ t[2] = "turned_r" \/ t[2] = "r")

\* tokenPriority, in tenths
tokenPriority(t) ==
  IF t \in AFFRIC THEN 30
  ELSE IF isVowelToken(t) THEN 30
  ELSE IF t \in LABIALS THEN 25
  ELSE IF t \in SIBILANTS THEN 18
  ELSE IF t \in NASALS THEN 16
  ELSE IF t \in LIQUIDS THEN 14
  ELSE IF t \in C_MAP2 \/ (Len(t) = 1 /\ InCMap(t[1])) THEN 17
  ELSE 10

\* the drop score of step 3 of compressTokens, in tenths
DropScore(t) == tokenPriority(t) + (IF isVowelToken(t) THEN 1000 ELSE 0)

\* the first index of the lowest drop score (the strict < of the scan)
DropIdx(out) ==
  CHOOSE i \in 1..Len(out) :
    /\ \A j \in 1..Len(out) : DropScore(out[i]) <= DropScore(out[j])
    /\ \A j \in 1..(i - 1) : DropScore(out[j]) > DropScore(out[i])

RemoveAt(s, i) == SubSeq(s, 1, i - 1) \o SubSeq(s, i + 1, Len(s))

RECURSIVE DropToTarget(_, _)
DropToTarget(out, target) ==
  IF Len(out) > target THEN DropToTarget(RemoveAt(out, DropIdx(out)), target) ELSE out

CeilDiv(a, b) == (a + b - 1) \div b

\* step 1 of compressTokens: the filter callback reads the length of the list
\* being filtered, which does not shrink while the filter runs
DropWeak(out) ==
  IF Len(out) > KEEP_AT_LEAST
    THEN SelectSeq(out, LAMBDA t : ~(t \in DROPPABLE /\ Len(out) > KEEP_AT_LEAST))
    ELSE out

\* mutant: the target count without the hard cap WORD_EVENT_CAP
compressTokens_NoCap(tokens, span) ==
  IF tokens = <<>> THEN tokens
  ELSE IF span >= MIN_SLOT * Len(tokens) /\ Len(tokens) <= WORD_EVENT_CAP THEN tokens
  ELSE DropToTarget(DropWeak(tokens), Max(KEEP_AT_LEAST, CeilDiv(span, MIN_SLOT)))

compressTokens(tokens, span) ==
  IF tokens = <<>> THEN tokens
  ELSE IF span >= MIN_SLOT * Len(tokens) /\ Len(tokens) <= WORD_EVENT_CAP THEN tokens
  ELSE LET out == DropWeak(tokens)
           targetByTime == Max(KEEP_AT_LEAST, CeilDiv(span, MIN_SLOT))
           target == Min(WORD_EVENT_CAP, targetByTime)
       IN DropToTarget(out, target)

Event(at, name, duration) ==
  [ at |-> at, name |-> name, duration |-> duration, peak |-> ONE,
    attack |-> ATTACK, decay |-> DECAY ]

Clamp(x, lo, hi) == IF x < lo THEN lo ELSE IF x > hi THEN hi ELSE x

\* mutant: a single-shape token is held for its whole slot, without the MAX_DUR cap
TokenEvents_NoMaxDur(w, tokens, slot, i) ==
  LET base == w.start + i * slot
      end == Min(w.end, base + slot)
      names == resolveTokenToVisemes(tokens[i + 1])
  IN IF Len(names) = 1
       THEN <<Event(base, names[1], Max(MIN_DUR, end - base))>>
       ELSE << Event(base, names[1], (end - base) \div 2),
               Event(base + (end - base) \div 2, names[2], (end - base) \div 2) >>

\* the events of token i (0-based) of a word, before the clamp of the onsets
TokenEvents(w, tokens, slot, i) ==
  LET t == tokens[i + 1]
      base == w.start + i * slot
      end == Min(w.end, base + slot)
      names == resolveTokenToVisemes(t)
  IN IF Len(names) = 1
       THEN <<Event(base, names[1], Max(MIN_DUR, Min(MAX_DUR, end - base)))>>
       ELSE LET half == (end - base) \div 2
                durHalf == Max((MIN_DUR * 3) \div 4, Min((MAX_DUR * 3) \div 4, half))
            IN << Event(base, names[1], durHalf),
                  Event(base + (half * SPLIT_OVERLAP_NUM) \div SPLIT_OVERLAP_DEN,
                        names[2], durHalf) >>

RECURSIVE WordEventsFrom(_, _, _, _)
WordEventsFrom(w, tokens, slot, i) ==
  IF i >= Len(tokens) THEN <<>>
  ELSE TokenEvents(w, tokens, slot, i) \o WordEventsFrom(w, tokens, slot, i + 1)

\* mutant: the onsets are left as the slots place them
ClampAt_NoClamp(w, ev) == ev

ClampAt(w, ev) == [ev EXCEPT !.at = Clamp(ev.at, w.start, w.end)]

\* w.start and w.end are finite here: the words come from normalizeWordsToAbsolute
wordToVisemeEvents(w) ==
  LET tokensRaw == tokenizeIPA(w.phoneme)
      span == Max(0, w.end - w.start)
  IN IF tokensRaw = <<>> \/ span <= 0 THEN <<>>
     ELSE LET tokens == compressTokens(tokensRaw, span)
          IN IF tokens = <<>> THEN <<>>  \* slot is Infinity and the loop never runs
             ELSE LET slot == Max(MIN_SLOT, span \div Len(tokens))
                      evs == WordEventsFrom(w, tokens, slot, 0)
                  IN [ k \in 1..Len(evs) |-> ClampAt(w, evs[k]) ]


(***************************************************************************)
(* Word timings.  A raw timing value is a boxed number: finite is FALSE    *)
(* for NaN and the infinities, which Number.isFinite rejects.              *)
(***************************************************************************)
Num(ms) == [ finite |-> TRUE, v |-> ms * MS ]
NaN == [ finite |-> FALSE, v |-> 0 ]

RawWord(word, phoneme, start, end) ==
  [ word |-> word, phoneme |-> phoneme, start |-> start, end |-> end ]

\* the first two steps of the sanitizing chain: finite values, unboxed
Unbox(w) == [ word |-> w.word, phoneme |-> w.phoneme, start |-> w.start.v, end |-> w.end.v ]

\* mutant: the sanitizing chain without its last filter, w.end >= w.start
CleanWords_KeepInverted(words) ==
  LET finiteOnes == SelectSeq(words, LAMBDA w : w.start.finite /\ w.end.finite)
  IN [ k \in 1..Len(finiteOnes) |-> Unbox(finiteOnes[k]) ]

CleanWords(words) ==
  LET finiteOnes == SelectSeq(words, LAMBDA w : w.start.finite /\ w.end.finite)
  IN SelectSeq([ k \in 1..Len(finiteOnes) |-> Unbox(finiteOnes[k]) ], LAMBDA w : w.end >= w.start)

RECURSIVE MinOf(_)
MinOf(s) == IF Len(s) = 1 THEN s[1] ELSE Min(s[1], MinOf(Tail(s)))
RECURSIVE MaxOf(_)
MaxOf(s) == IF Len(s) = 1 THEN s[1] ELSE Max(s[1], MaxOf(Tail(s)))

EPS == 5 * MS
GAP_PAD == 30 * MS
HARD_RESET_BACKSTEP == 800 * MS

\* mutant: every backward jump is stitched, however far back
SegOffsetAfter_AlwaysStitch(seg, localMin) ==
  LET candAbsMin == seg.segOffset + localMin
  IN IF candAbsMin + EPS < seg.lastAbsEnd
       THEN seg.segOffset + (seg.lastAbsEnd - candAbsMin) + GAP_PAD
       ELSE seg.segOffset

\* mutant: a stitched batch is placed at lastAbsEnd, without the gap pad
SegOffsetAfter_NoGapPad(seg, localMin) ==
  LET candAbsMin == seg.segOffset + localMin
  IN IF candAbsMin + EPS < seg.lastAbsEnd
       THEN LET backstep == seg.lastAbsEnd - candAbsMin
            IN IF backstep > HARD_RESET_BACKSTEP
                 THEN seg.lastAbsEnd + GAP_PAD
                 ELSE seg.segOffset + backstep
       ELSE seg.segOffset

\* mutant: the backward-jump test without the EPS tolerance
SegOffsetAfter_NoTolerance(seg, localMin) ==
  LET candAbsMin == seg.segOffset + localMin
  IN IF candAbsMin < seg.lastAbsEnd
       THEN LET backstep == seg.lastAbsEnd - candAbsMin
            IN IF backstep > HARD_RESET_BACKSTEP
                 THEN seg.lastAbsEnd + GAP_PAD
                 ELSE seg.segOffset + backstep + GAP_PAD
       ELSE seg.segOffset

\* segOffset after the backward-jump test of normalizeWordsToAbsolute
SegOffsetAfter(seg, localMin) ==
  LET candAbsMin == seg.segOffset + localMin
  IN IF candAbsMin + EPS < seg.lastAbsEnd
       THEN LET backstep == seg.lastAbsEnd - candAbsMin
            IN IF backstep > HARD_RESET_BACKSTEP
                 THEN seg.lastAbsEnd + GAP_PAD
                 ELSE seg.segOffset + backstep + GAP_PAD
       ELSE seg.segOffset

\* mutant: lastAbsEnd overwritten by the end of the batch
LastAbsEndAfter_NoMax(seg, offset, localMax) == offset + localMax

LastAbsEndAfter(seg, offset, localMax) == Max(seg.lastAbsEnd, offset + localMax)

ShiftWord(w, offset) == [w EXCEPT !.start = w.start + offset, !.end = w.end + offset]

\* normalizeWordsToAbsolute: the words it returns and the segment state it leaves
normalizeWordsToAbsolute(seg, words) ==
  LET clean == CleanWords(words)
  IN IF words = <<>> \/ clean = <<>> THEN [ adjusted |-> <<>>, seg |-> seg ]
     ELSE LET localMin == MinOf([ k \in 1..Len(clean) |-> clean[k].start ])
              localMax == MaxOf([ k \in 1..Len(clean) |-> clean[k].end ])
              offset == SegOffsetAfter(seg, localMin)
          IN [ adjusted |-> [ k \in 1..Len(clean) |-> ShiftWord(clean[k], offset) ],
               seg |-> [ segOffset |-> offset,
                         lastAbsEnd |-> LastAbsEndAfter(seg, offset, localMax) ] ]

BUCKET == 10 * MS

\* Math.round(t / BUCKET): the index of the 10ms bucket
bucketTimeSec(t) == (2 * t + BUCKET) \div (2 * BUCKET)

\* makeEventKey: name@seconds with two decimals; digits records the format
makeEventKey(ev) == [ name |-> ev.name, digits |-> 2, t |-> bucketTimeSec(ev.at) ]

\* the key of prepareTimelineFromWords: name@seconds with three decimals
PrerollEventKey(ev) == [ name |-> ev.name, digits |-> 3, t |-> (2 * ev.at + MS) \div (2 * MS) ]

MAX_VIS_CHANGES_PER_SEC == 10
MIN_EVENT_GAP == (1000 * MS) \div MAX_VIS_CHANGES_PER_SEC
MERGE_SAME_GAP == 50 * MS

\* stable insertion of e by onset, and the stable sort (a, b) => a.at - b.at
RECURSIVE InsertByAt(_, _)
InsertByAt(s, e) ==
  IF s = <<>> THEN <<e>>
  ELSE IF s[Len(s)].at <= e.at THEN Append(s, e)
  ELSE Append(InsertByAt(SubSeq(s, 1, Len(s) - 1), e), s[Len(s)])

RECURSIVE SortFrom(_, _, _)
SortFrom(s, i, acc) ==
  IF i > Len(s) THEN acc ELSE SortFrom(s, i + 1, InsertByAt(acc, s[i]))

\* mutant: the sort left out
SortByAt_Unsorted(s) == s

SortByAt(s) == SortFrom(s, 1, <<>>)

RECURSIVE InsertByStart(_, _)
InsertByStart(s, w) ==
  IF s = <<>> THEN <<w>>
  ELSE IF s[Len(s)].start <= w.start THEN Append(s, w)
  ELSE Append(InsertByStart(SubSeq(s, 1, Len(s) - 1), w), s[Len(s)])

RECURSIVE SortWordsFrom(_, _, _)
SortWordsFrom(s, i, acc) ==
  IF i > Len(s) THEN acc ELSE SortWordsFrom(s, i + 1, InsertByStart(acc, s[i]))

SortByStart(s) == SortWordsFrom(s, 1, <<>>)

\* mutant: step 1 of decimateTimeline copies the events without merging
MergeFrom_NoMerge(events, i, merged) == events

\* step 1 of decimateTimeline: merge adjacent same-name events
RECURSIVE MergeFrom(_, _, _)
MergeFrom(events, i, merged) ==
  IF i > Len(events) THEN merged
  ELSE LET e == events[i]
           n == Len(merged)
       IN IF n > 0 /\ merged[n].name = e.name
               /\ e.at - (merged[n].at + merged[n].duration) <= MERGE_SAME_GAP
            THEN LET lastEv == merged[n]
                     newEnd == Max(lastEv.at + lastEv.duration, e.at + e.duration)
                 IN MergeFrom(events, i + 1,
                      [merged EXCEPT ![n] = [lastEv EXCEPT !.duration = newEnd - lastEv.at,
                                                            !.peak = Max(lastEv.peak, e.peak)]])
            ELSE MergeFrom(events, i + 1, Append(merged, e))

\* the visibility score of the rate limiter, in tenths; V_MAP is keyed by
\* phoneme characters and the score looks a shape name up in it
prefer(e) ==
  (IF InVMap(e.name) THEN 20 ELSE 0) + (IF e.name = "viseme_CH" THEN 15 ELSE 0)
    + (IF e.name = "viseme_PP" THEN 10 ELSE 0)

\* mutant: on equal scores the incoming event replaces the kept one
RECURSIVE RateLimitFrom_TieReplaces(_, _, _)
RateLimitFrom_TieReplaces(merged, i, keep) ==
  IF i > Len(merged) THEN keep
  ELSE LET e == merged[i]
           n == Len(keep)
       IN IF n = 0 \/ e.at - keep[n].at >= MIN_EVENT_GAP
            THEN RateLimitFrom_TieReplaces(merged, i + 1, Append(keep, e))
            ELSE IF prefer(e) >= prefer(keep[n])
              THEN RateLimitFrom_TieReplaces(merged, i + 1, [keep EXCEPT ![n] = e])
              ELSE RateLimitFrom_TieReplaces(merged, i + 1, keep)

\* step 2 of decimateTimeline; lastAt is the onset of the last kept event
RECURSIVE RateLimitFrom(_, _, _)
RateLimitFrom(merged, i, keep) ==
  IF i > Len(merged) THEN keep
  ELSE LET e == merged[i]
           n == Len(keep)
       IN IF n = 0 \/ e.at - keep[n].at >= MIN_EVENT_GAP
            THEN RateLimitFrom(merged, i + 1, Append(keep, e))
            ELSE IF prefer(e) > prefer(keep[n])
              THEN RateLimitFrom(merged, i + 1, [keep EXCEPT ![n] = e])
              ELSE RateLimitFrom(merged, i + 1, keep)

\* mutant: the rate limiter keeps every event
RateLimit_KeepAll(merged) == merged

RateLimit(merged) == RateLimitFrom(merged, 1, <<>>)

decimateTimeline(events) ==
  IF Len(events) <= 1 THEN events
  ELSE RateLimit(MergeFrom(events, 1, <<>>))

PunctChars == { " ", ",", ".", ";", ":", "!", "?", "-" }

\* !w.word || /^[\s,.;:!?-]+$/.test(w.word)
IsPunctuationOnly(word) == \A k \in 1..Len(word) : word[k] \in PunctChars

\* the dedup loop over the events of one word: keys seen so far, events accepted
RECURSIVE AcceptEvents(_, _, _, _, _)
AcceptEvents(live, evs, i, seen, acc) ==
  IF i > Len(evs) THEN [ seen |-> seen, acc |-> acc ]
  ELSE LET key == IF live THEN makeEventKey(evs[i]) ELSE PrerollEventKey(evs[i])
       IN IF key \in seen THEN AcceptEvents(live, evs, i + 1, seen, acc)
          ELSE AcceptEvents(live, evs, i + 1, seen \cup {key}, Append(acc, evs[i]))

\* the loop of pushWordsToTimeline over the sorted words
RECURSIVE PushWordsFrom(_, _, _, _)
PushWordsFrom(ws, i, seen, pending) ==
  IF i > Len(ws) THEN [ seen |-> seen, pending |-> pending ]
  ELSE IF IsPunctuationOnly(ws[i].word) THEN PushWordsFrom(ws, i + 1, seen, pending)
  ELSE LET r == AcceptEvents(TRUE, wordToVisemeEvents(ws[i]), 1, seen, pending)
       IN PushWordsFrom(ws, i + 1, r.seen, r.acc)

\* pushWordsToTimeline on a non-empty batch: the dedup set and pending queue it leaves
pushWordsToTimeline(wordsAbs, seen, pending) ==
  LET r == PushWordsFrom(SortByStart(wordsAbs), 1, seen, pending)
  IN [ seen |-> r.seen, pending |-> decimateTimeline(SortByAt(r.pending)),
       nSorted |-> Len(r.pending) ]

\* the loop of prepareTimelineFromWords over the pre-roll queue
RECURSIVE PrepareFrom(_, _, _, _)
PrepareFrom(ws, i, seen, events) ==
  IF i > Len(ws) THEN [ seen |-> seen, events |-> events ]
  ELSE LET r == AcceptEvents(FALSE, wordToVisemeEvents(ws[i]), 1, seen, events)
       IN PrepareFrom(ws, i + 1, r.seen, r.acc)

\* mutant: the loop starts at the second word of the pre-roll queue
prepareTimelineFromWords_SkipsFirst(queue, seen, pending) ==
  LET r == PrepareFrom(queue, 2, seen, <<>>)
  IN [ seen |-> r.seen, pending |-> pending \o SortByAt(r.events) ]

prepareTimelineFromWords(queue, seen, pending) ==
  LET r == PrepareFrom(queue, 1, seen, <<>>)
  IN [ seen |-> r.seen, pending |-> pending \o SortByAt(r.events) ]


(***************************************************************************)
(* The scheduler.                                                          *)
(***************************************************************************)
\* MORPH_CAP = 0.9 and decayFactor = 0.85, in 1/10000
MORPH_CAP == 9 * 1000
DecayFactor == 85 * 100
MaxFrameDt == 100 * MS

Shapes ==
  { "viseme_PP", "viseme_FF", "viseme_DD", "viseme_SS", "viseme_CH", "viseme_kk",
    "viseme_nn", "viseme_RR", "viseme_TH", "viseme_aa", "viseme_E", "viseme_I",
    "viseme_O", "viseme_U" }

\* perVisemeGain, in 1/10000; omitted keys default to 1.0
perVisemeGain ==
  [ viseme_PP |-> 10000, viseme_aa |-> 9500, viseme_I |-> 9500, viseme_O |-> 9500,
    viseme_U |-> 9500, viseme_E |-> 9500, viseme_SS |-> 8000, viseme_FF |-> 8000,
    viseme_RR |-> 6000, viseme_DD |-> 9000, viseme_kk |-> 9000, viseme_CH |-> 8500,
    viseme_nn |-> 9000 ]

GainOf(name) == IF name \in DOMAIN perVisemeGain THEN perVisemeGain[name] ELSE ONE

\* fitRamps(duration, attack, decay): the event always carries both ramps
fitRamps(duration, attack, decay) ==
  LET a0 == Max(0, attack)
      d0 == Max(0, decay)
      a == Min(a0, (duration * 4) \div 10)
      d == Min(d0, (duration * 4) \div 10)
  IN IF a + d <= duration \/ duration <= 0 THEN [ a |-> a, d |-> d ]
     ELSE [ a |-> (a * duration) \div (a + d), d |-> (d * duration) \div (a + d) ]

envValueFromCountdown(env) ==
  LET elapsed == env.total - env.timeLeft
      hold == Max(0, env.total - env.attack - env.decay)
  IN IF elapsed <= 0 \/ env.total <= 0 THEN 0
     ELSE IF elapsed < env.attack THEN (elapsed * env.peak) \div env.attack
     ELSE IF elapsed < env.attack + hold THEN env.peak
     ELSE LET td == elapsed - (env.attack + hold)
          IN IF env.decay = 0 THEN (IF td = 0 THEN env.peak ELSE 0)
             ELSE Max(0, (env.peak * (env.decay - td)) \div env.decay)

Envelope(ev) ==
  LET r == fitRamps(ev.duration, ev.attack, ev.decay)
  IN [ name |-> ev.name, timeLeft |-> ev.duration, total |-> ev.duration,
       peak |-> Min(ONE, Max(0, ev.peak)), attack |-> r.a, decay |-> r.d ]

\* mutant: the due events get their envelopes and stay at the head of the queue
promoteDueEvents_NoShift(now, pending, active) ==
  LET due == SelectSeq(pending, LAMBDA ev : ev.at <= now)
  IN [ pending |-> pending,
       active |-> active \o [ k \in 1..Len(due) |-> Envelope(due[k]) ] ]

\* mutant: an if in place of the while, at most one promotion per frame
promoteDueEvents_OnlyFirst(now, pending, active) ==
  IF pending # <<>> /\ pending[1].at <= now
    THEN [ pending |-> Tail(pending), active |-> Append(active, Envelope(pending[1])) ]
    ELSE [ pending |-> pending, active |-> active ]

\* promoteDueEvents(now): the pending queue and active set it leaves
RECURSIVE promoteDueEvents(_, _, _)
promoteDueEvents(now, pending, active) ==
  IF pending # <<>> /\ pending[1].at <= now
    THEN promoteDueEvents(now, Tail(pending), Append(active, Envelope(pending[1])))
    ELSE [ pending |-> pending, active |-> active ]

\* mutant: the value without the safety clamp
EnvelopeVal_NoCap(env) == (envValueFromCountdown(env) * GainOf(env.name)) \div ONE

\* the value an envelope contributes: Math.min(MORPH_CAP, v * gain)
EnvelopeVal(env) == Min(MORPH_CAP, (envValueFromCountdown(env) * GainOf(env.name)) \div ONE)

\* step 2 of the frame callback: the per-shape maximum; 0 stands for "no entry"
RECURSIVE AggregateFrom(_, _, _)
AggregateFrom(active, i, byName) ==
  IF i > Len(active) THEN byName
  ELSE LET env == active[i]
           val == EnvelopeVal(env)
       IN IF envValueFromCountdown(env) <= 0 THEN AggregateFrom(active, i + 1, byName)
          ELSE IF val > byName[env.name]
            THEN AggregateFrom(active, i + 1, [byName EXCEPT ![env.name] = val])
            ELSE AggregateFrom(active, i + 1, byName)

NoWrites == [ n \in Shapes |-> 0 ]

\* mutant: last write wins, the value of the last envelope of a shape is kept
Aggregate_LastWriteWins(active) ==
  [ n \in Shapes |->
      LET idx == { k \in 1..Len(active) :
                     active[k].name = n /\ envValueFromCountdown(active[k]) > 0 }
      IN IF idx = {} THEN 0
         ELSE EnvelopeVal(active[CHOOSE k \in idx : \A j \in idx : j <= k]) ]

Aggregate(active) == AggregateFrom(active, 1, NoWrites)

\* mutant: the prune keeps an envelope whose time left is exactly 0
Countdown_KeepsFinished(active, dt) ==
  SelectSeq([ k \in 1..Len(active) |-> [active[k] EXCEPT !.timeLeft = @ - dt] ],
            LAMBDA e : e.timeLeft >= 0)

\* step 4: countdown and prune
Countdown(active, dt) ==
  SelectSeq([ k \in 1..Len(active) |-> [active[k] EXCEPT !.timeLeft = @ - dt] ],
            LAMBDA e : e.timeLeft > 0)

\* steps 3 and 5: setViseme for every entry of byName, then decayVisemes
ApplyAndDecay(morphs, byName) ==
  [ n \in Shapes |->
      ((IF byName[n] > 0 THEN byName[n] ELSE morphs[n]) * DecayFactor) \div ONE ]

(***************************************************************************)
(* State.                                                                  *)
(***************************************************************************)
VARIABLES
  audioCtx,        \* audioCtxRef.current is an AudioContext
  ttsNode,         \* ttsNodeRef.current is the worklet node
  isInitialized,   \* isInitializedRef.current
  clock,           \* ctx.currentTime
  t0,              \* t0Ref.current: the anchor, or Null
  segState,        \* segStateRef.current
  wordQueue,       \* wordQueueRef.current: the pre-roll queue
  pendingEvents,   \* pendingEventsRef.current
  activeEnvelopes, \* activeEnvelopesRef.current
  seenEvents,      \* seenEventsRef.current
  isTTSPlaying,    \* isTTSPlayingRef.current
  wIsPlaying,      \* the worklet processor's isPlaying
  wSamples,        \* the worklet processor's samplesRemaining, in render quanta
  toWorklet,       \* messages posted to the worklet, not yet received
  toMain,          \* messages posted by the worklet, not yet handled
  morphs,          \* the morph target influences of the viseme shapes
  last,            \* the last operation on the lip-sync state and what it returned
  messages,        \* websocket messages handled so far (bounds the behaviours)
  probe            \* input and result of a pure function under check

vars ==
  << audioCtx, ttsNode, isInitialized, clock, t0, segState, wordQueue, pendingEvents,
     activeEnvelopes, seenEvents, isTTSPlaying, wIsPlaying, wSamples, toWorklet, toMain,
     morphs, last, messages, probe >>

aux == << messages, probe >>
engineVars == << t0, segState, wordQueue, pendingEvents, activeEnvelopes, seenEvents >>
workletVars == << wIsPlaying, wSamples, toWorklet, toMain >>

outputLatencySec == 0

FreshSeg == [ segOffset |-> 0, lastAbsEnd |-> 0 ]

NoOut == [ none |-> TRUE ]

Op(op, arg, out) == [ op |-> op, arg |-> arg, out |-> out ]

EngineInit ==
  /\ audioCtx = FALSE
  /\ ttsNode = FALSE
  /\ isInitialized = FALSE
  /\ clock = 0
  /\ t0 = Null
  /\ segState = FreshSeg
  /\ wordQueue = <<>>
  /\ pendingEvents = <<>>
  /\ activeEnvelopes = <<>>
  /\ seenEvents = {}
  /\ isTTSPlaying = FALSE
  /\ wIsPlaying = FALSE
  /\ wSamples = 0
  /\ toWorklet = <<>>
  /\ toMain = <<>>
  /\ morphs = NoWrites
  /\ last = Op("init", "", NoOut)
  /\ messages = 0

NoProbe == [ kind |-> "none" ]

Init == EngineInit /\ probe = NoProbe


(***************************************************************************)
(* Inputs: the word-timing batches the server delivers.                    *)
(***************************************************************************)
CatText == <<"c", "a", "t">>
CatPhoneme == <<"k", "ae", "t">>
HiText == <<"h", "i">>
HiPhoneme == <<"h", "a", "small_I">>
AmpText == <<"a", "m", "p">>
AmpPhoneme == <<"ae", "m", "p">>

Word(text, phoneme, startMs, endMs) == RawWord(text, phoneme, Num(startMs), Num(endMs))

BatchOf(b) ==
  CASE b = "cat" -> << Word(CatText, CatPhoneme, 0, 300) >>
    [] b = "cat_hi" -> << Word(CatText, CatPhoneme, 0, 300), Word(HiText, HiPhoneme, 100, 300) >>
    [] b = "malformed" -> << RawWord(CatText, CatPhoneme, NaN, Num(300)),
                             Word(HiText, HiPhoneme, 300, 100) >>
    [] b = "next" -> << Word(HiText, HiPhoneme, 300, 500) >>
    [] b = "late" -> << Word(CatText, CatPhoneme, 700, 1000) >>
    [] b = "blip" -> << Word(HiText, HiPhoneme, 297, 299) >>
    [] b = "slow" -> << Word(CatText, CatPhoneme, 400, 1000) >>
    [] b = "amp" -> << Word(AmpText, AmpPhoneme, 0, 300) >>
    [] b = "mixed" -> << RawWord(CatText, CatPhoneme, NaN, Num(300)),
                         Word(CatText, CatPhoneme, 0, 300),
                         Word(HiText, HiPhoneme, 2000, 1900) >>
    [] b = "far" -> << Word(CatText, CatPhoneme, 1200, 1500), Word(HiText, HiPhoneme, 1500, 1800) >>
    [] b = "cat_p" -> << Word(CatText, CatPhoneme, 0, 300), Word(<<"p">>, <<"p">>, 50, 150) >>
    [] b = "rewind" -> << Word(CatText, CatPhoneme, -1000, -700) >>
    [] b = "amp_k" -> << Word(AmpText, AmpPhoneme, 0, 300), Word(<<"k">>, <<"k">>, 150, 250) >>

Batches == { "cat", "cat_hi", "malformed" }
NormBatches ==
  { "cat", "cat_hi", "late", "blip", "malformed", "mixed", "slow", "amp", "far", "cat_p",
    "amp_k", "rewind" }

\* raw frame deltas: a regular frame and a stalled one, clamped to MaxFrameDt
FrameDeltas == { 50 * MS, 150 * MS }

MaxMessages == 4
MaxTicks == 4

(***************************************************************************)
(* Operations.                                                             *)
(***************************************************************************)
\* onPlaybackStopped: wordQueueRef is not among the refs it resets
onPlaybackStopped ==
  /\ t0' = Null
  /\ pendingEvents' = <<>>
  /\ activeEnvelopes' = <<>>
  /\ segState' = FreshSeg
  /\ seenEvents' = {}
  /\ UNCHANGED wordQueue

onPlaybackStarted ==
  LET r == prepareTimelineFromWords(wordQueue, seenEvents, pendingEvents)
  IN /\ t0' = Some(clock + outputLatencySec)
     /\ seenEvents' = r.seen
     /\ pendingEvents' = r.pending
     /\ wordQueue' = <<>>
     /\ UNCHANGED << segState, activeEnvelopes >>

\* initTTSPlayback, run from ws.onopen
InitTTSPlayback ==
  /\ ~isInitialized
  /\ audioCtx' = TRUE
  /\ ttsNode' = TRUE
  /\ isInitialized' = TRUE
  /\ UNCHANGED << clock, engineVars, isTTSPlaying, workletVars, morphs, last, aux >>

\* cleanupAudio, run from ws.onclose: cleanupTTS, then the context is closed
CleanupAudio ==
  /\ isInitialized
  /\ ttsNode
  /\ onPlaybackStopped
  /\ ttsNode' = FALSE
  /\ audioCtx' = FALSE
  /\ wIsPlaying' = FALSE
  /\ wSamples' = 0
  /\ toWorklet' = <<>>
  /\ toMain' = <<>>
  /\ last' = Op("cleanupAudio", "", NoOut)
  /\ UNCHANGED << isInitialized, clock, isTTSPlaying, morphs, aux >>

\* playTTSChunk, on a tts_chunk message
PlayTTSChunk ==
  /\ ttsNode
  /\ toWorklet' = Append(toWorklet, "chunk")
  /\ messages' = messages + 1
  /\ UNCHANGED << audioCtx, ttsNode, isInitialized, clock, engineVars, isTTSPlaying,
                  wIsPlaying, wSamples, toMain, morphs, last, probe >>

\* stopTTSPlayback, on a stop_tts message
StopTTSPlayback ==
  /\ ttsNode
  /\ toWorklet' = Append(toWorklet, "clear")
  /\ onPlaybackStopped
  /\ messages' = messages + 1
  /\ last' = Op("stopTTSPlayback", "", NoOut)
  /\ UNCHANGED << audioCtx, ttsNode, isInitialized, clock, isTTSPlaying,
                  wIsPlaying, wSamples, toMain, morphs, probe >>

\* the processor's port.onmessage
WorkletOnMessage ==
  /\ toWorklet # <<>>
  /\ toWorklet' = Tail(toWorklet)
  /\ IF Head(toWorklet) = "clear"
       THEN wSamples' = 0 /\ wIsPlaying' = FALSE
       ELSE wSamples' = wSamples + 1 /\ UNCHANGED wIsPlaying
  /\ UNCHANGED << audioCtx, ttsNode, isInitialized, clock, engineVars, isTTSPlaying,
                  toMain, morphs, last, aux >>

\* the processor's process(), for the render quanta in which it does something
WorkletProcess ==
  /\ ttsNode
  /\ IF wSamples = 0
       THEN /\ wIsPlaying
            /\ wIsPlaying' = FALSE
            /\ toMain' = Append(toMain, "ttsPlaybackStopped")
            /\ UNCHANGED wSamples
       ELSE /\ wIsPlaying' = TRUE
            /\ toMain' = IF wIsPlaying THEN toMain ELSE Append(toMain, "ttsPlaybackStarted")
            /\ wSamples' = wSamples - 1
  /\ UNCHANGED << audioCtx, ttsNode, isInitialized, clock, engineVars, isTTSPlaying,
                  toWorklet, morphs, last, aux >>

\* ttsNode.port.onmessage on the main thread
PortOnMessage ==
  /\ ttsNode
  /\ toMain # <<>>
  /\ toMain' = Tail(toMain)
  /\ LET type == Head(toMain)
     IN IF type = "ttsPlaybackStarted" /\ ~isTTSPlaying
          THEN /\ isTTSPlaying' = TRUE
               /\ onPlaybackStarted
               /\ last' = Op(type, TRUE, NoOut)
          ELSE IF type = "ttsPlaybackStopped" /\ isTTSPlaying
            THEN /\ onPlaybackStopped
                 /\ isTTSPlaying' = FALSE
                 /\ last' = Op(type, TRUE, NoOut)
            ELSE /\ last' = Op(type, FALSE, NoOut)
                 /\ UNCHANGED << engineVars, isTTSPlaying >>
  /\ UNCHANGED << audioCtx, ttsNode, isInitialized, clock, wIsPlaying, wSamples,
                  toWorklet, morphs, aux >>

\* mutant: a delivery always takes the playing branch
AnchorSet_Always == TRUE

\* t0Ref.current != null, the test of onWordTiming for "already playing"
AnchorSet == t0 # Null

\* onWordTiming(content), on a word_timing message
OnWordTiming(b) ==
  LET norm == normalizeWordsToAbsolute(segState, BatchOf(b))
      adjusted == norm.adjusted
      pushed == pushWordsToTimeline(adjusted, seenEvents, pendingEvents)
      runs == AnchorSet /\ adjusted # <<>>
  IN /\ messages' = messages + 1
     /\ segState' = norm.seg
     /\ IF AnchorSet
          THEN /\ seenEvents' = IF runs THEN pushed.seen ELSE seenEvents
               /\ pendingEvents' = IF runs THEN pushed.pending ELSE pendingEvents
               /\ UNCHANGED wordQueue
          ELSE /\ wordQueue' = wordQueue \o adjusted
               /\ UNCHANGED << seenEvents, pendingEvents >>
     /\ last' = Op("onWordTiming", b,
                   [ adjusted |-> adjusted, segBefore |-> segState, anchored |-> t0 # Null,
                     curated |-> runs, nSorted |-> IF runs THEN pushed.nSorted ELSE 0 ])
     /\ UNCHANGED << audioCtx, ttsNode, isInitialized, clock, t0, activeEnvelopes,
                     isTTSPlaying, workletVars, morphs, probe >>


\* mutant: the frame callback tests the audio context only
FrameRuns_IgnoresAnchor == audioCtx

\* the negation of the early return of the frame callback, !ctx || t0 == null
FrameRuns == audioCtx /\ t0 # Null

\* the useFrame callback of useAvatarLipSync; the audio clock has advanced by the
\* raw frame delta since the last frame
Tick(rawDt) ==
  /\ clock + rawDt <= MaxTicks * 50 * MS
  /\ UNCHANGED << audioCtx, ttsNode, isInitialized, t0, segState, wordQueue, seenEvents,
                  isTTSPlaying, workletVars, aux >>
  /\ clock' = IF audioCtx THEN clock + rawDt ELSE clock
  /\ IF ~FrameRuns
       THEN /\ last' = Op("frame", rawDt,
                            [ ran |-> FALSE, writes |-> NoWrites, nPromoted |-> 0 ])
            /\ UNCHANGED << pendingEvents, activeEnvelopes, morphs >>
       ELSE LET dt == Min(Max(rawDt, 0), MaxFrameDt)
                \* a null anchor counts as 0 in ctx.currentTime - t0
                now == clock' - (IF t0 = Null THEN 0 ELSE t0[1])
                promoted == promoteDueEvents(now, pendingEvents, activeEnvelopes)
                byName == Aggregate(promoted.active)
            IN /\ pendingEvents' = promoted.pending
               /\ activeEnvelopes' = Countdown(promoted.active, dt)
               /\ morphs' = ApplyAndDecay(morphs, byName)
               /\ last' = Op("frame", rawDt,
                               [ ran |-> TRUE, writes |-> byName,
                                 nPromoted |-> Len(promoted.active) - Len(activeEnvelopes) ])

Next ==
  \/ InitTTSPlayback
  \/ CleanupAudio
  \/ messages < MaxMessages /\ PlayTTSChunk
  \/ messages < MaxMessages /\ StopTTSPlayback
  \/ WorkletOnMessage
  \/ WorkletProcess
  \/ PortOnMessage
  \/ \E b \in Batches : messages < MaxMessages /\ OnWordTiming(b)
  \/ \E rawDt \in FrameDeltas : Tick(rawDt)

Spec == Init /\ [][Next]_vars


\* the lifecycle and the normalizer alone, on a wider choice of batches
NormNext ==
  \/ InitTTSPlayback
  \/ messages < MaxMessages /\ PlayTTSChunk
  \/ messages < MaxMessages /\ StopTTSPlayback
  \/ WorkletOnMessage
  \/ WorkletProcess
  \/ PortOnMessage
  \/ \E b \in NormBatches : messages < MaxMessages /\ OnWordTiming(b)

SpecNorm == Init /\ [][NormNext]_vars

(***************************************************************************)
(* Properties.                                                             *)
(***************************************************************************)
PlaybackStopRan ==
  \/ last.op = "stopTTSPlayback"
  \/ last.op = "ttsPlaybackStopped" /\ last.arg

\* C1: after any playback-stop (ttsPlaybackStopped handled by the port handler, or
\* stopTTSPlayback) the anchor is null, segState is {0, 0}, and the dedup set, the
\* pending queue, the active set and the pre-roll queue are all empty.
C1_StopClearsAllSegmentState ==
  PlaybackStopRan =>
    /\ t0 = Null
    /\ segState = FreshSeg
    /\ seenEvents = {}
    /\ pendingEvents = <<>>
    /\ activeEnvelopes = <<>>
    /\ wordQueue = <<>>

\* C2: every ttsPlaybackStarted message the port handler receives sets the anchor
\* to clockTime + outputLatency, whatever starts and stops came before.
C2_StartSetsAnchor ==
  last.op = "ttsPlaybackStarted" => t0 = Some(clock + outputLatencySec)

\* C5: delivering the batch just delivered a second time, with the anchor set at
\* both messages, schedules nothing: the pending queue and the active set are as
\* the first delivery left them.
C5_RedeliveryAddsNothing ==
  [][ ( /\ last.op = "onWordTiming"
        /\ last.out.anchored
        /\ messages' = messages + 1
        /\ last'.op = "onWordTiming"
        /\ last' # last
        /\ last'.arg = last.arg
        /\ last'.out.anchored )
      => pendingEvents' = pendingEvents /\ activeEnvelopes' = activeEnvelopes ]_vars

SortedByOnset(evs) == \A k \in 1..(Len(evs) - 1) : evs[k].at <= evs[k + 1].at

\* C6: in every reachable state the pending queue is sorted ascending by onset.
C6_PendingSorted == SortedByOnset(pendingEvents)

\* a pre-roll flush of overlapping words was followed by a live delivery
C6_Witness ==
  /\ Len(pendingEvents) >= 3
  /\ \E k \in 1..(Len(pendingEvents) - 1) : pendingEvents[k].at < pendingEvents[k + 1].at
  /\ \E key \in seenEvents : key.digits = 3
  /\ \E key \in seenEvents : key.digits = 2

\* C7: in the pending queue as a curation pass of pushWordsToTimeline leaves it, no
\* two consecutive events of different shapes have onsets closer than MIN_EVENT_GAP.
C7_CuratedMinGap ==
  (last.op = "onWordTiming" /\ last.out.curated) =>
    \A k \in 1..(Len(pendingEvents) - 1) :
      pendingEvents[k].name # pendingEvents[k + 1].name
        => pendingEvents[k + 1].at - pendingEvents[k].at >= MIN_EVENT_GAP

\* the curation pass removed events and left at least two of different shapes
C7_Witness ==
  /\ last.op = "onWordTiming"
  /\ last.out.curated
  /\ last.out.nSorted > Len(pendingEvents)
  /\ \E k \in 1..(Len(pendingEvents) - 1) : pendingEvents[k].name # pendingEvents[k + 1].name

\* the valid words of the batch the last delivery carried
LastClean == CleanWords(BatchOf(last.arg))

\* the last delivery carried a batch whose earliest start was not more than EPS
\* before lastAbsEnd
LastBatchNonRegressing ==
  /\ last.op = "onWordTiming"
  /\ LastClean # <<>>
  /\ MinOf([ k \in 1..Len(LastClean) |-> LastClean[k].start ]) + EPS
       >= last.out.segBefore.lastAbsEnd

\* C8 as stated: a batch that is already absolute and non-regressing comes back
\* with every start and end unchanged, whatever segOffset is.
C8_NonRegressingUnchanged ==
  LastBatchNonRegressing => last.out.adjusted = LastClean

\* C8 as amended: such a batch comes back shifted by the current segOffset, which
\* the call leaves as it is; so it is unchanged exactly when segOffset is 0.
C8_NonRegressingShiftedBySegOffset ==
  LastBatchNonRegressing =>
    /\ segState.segOffset = last.out.segBefore.segOffset
    /\ last.out.adjusted =
         [ k \in 1..Len(LastClean) |-> ShiftWord(LastClean[k], last.out.segBefore.segOffset) ]
    /\ (last.out.adjusted = LastClean) <=> (last.out.segBefore.segOffset = 0)

\* a later batch was normalised at segOffset 0, behind a timeline already begun
C8_Witness ==
  /\ LastBatchNonRegressing
  /\ last.out.segBefore.segOffset = 0
  /\ last.out.segBefore.lastAbsEnd > 0
  /\ last.out.adjusted = LastClean

\* C9: no delivery lowers lastAbsEnd, whatever the batch holds.
C9_LastAbsEndNonDecreasing ==
  last.op = "onWordTiming" => segState.lastAbsEnd >= last.out.segBefore.lastAbsEnd

\* a batch ending before lastAbsEnd was delivered and lastAbsEnd stayed
C9_Witness ==
  /\ last.op = "onWordTiming"
  /\ last.out.adjusted # <<>>
  /\ \A k \in 1..Len(last.out.adjusted) : last.out.adjusted[k].end < segState.lastAbsEnd
  /\ segState.lastAbsEnd = last.out.segBefore.lastAbsEnd

\* C10: every value a frame writes to a shape, and every value left on the shape
\* after the decay, lies in [0, MORPH_CAP].
C10_SinkWithinCap ==
  /\ \A n \in Shapes : 0 <= morphs[n] /\ morphs[n] <= MORPH_CAP
  /\ (last.op = "frame" /\ last.out.ran)
       => \A n \in Shapes : 0 <= last.out.writes[n] /\ last.out.writes[n] <= MORPH_CAP

\* a frame wrote a value whose envelope value times gain was above the cap
C10_Witness ==
  /\ last.op = "frame"
  /\ last.out.ran
  /\ last.out.writes["viseme_aa"] = MORPH_CAP
  /\ GainOf("viseme_aa") > MORPH_CAP

(***************************************************************************)
(* The allocator as a function: tokenizeIPA, compressTokens and            *)
(* wordToVisemeEvents applied to every phoneme string over AllocChars of   *)
(* at most MaxPhonemeLen characters, on every span of WordSpans.           *)
(***************************************************************************)
MaxPhonemeLen == 5

\* a weak consonant, a stop, two vowels that also form a diphthong, a rhotic
AllocChars == { "h", "k", "a", "small_I", "turned_r" }

PhonemeStrings == UNION { [ 1..n -> AllocChars ] : n \in 0..MaxPhonemeLen }

\* [start, end] in milliseconds
WordSpans == { <<0, 60>>, <<0, 300>>, <<100, 600>> }

AllocInit ==
  /\ EngineInit
  /\ probe \in { [ kind |-> "word",
                   w |-> [ word |-> <<"w">>, phoneme |-> ph,
                           start |-> sp[1] * MS, end |-> sp[2] * MS ] ] :
                 ph \in PhonemeStrings, sp \in WordSpans }

Allocate ==
  /\ probe.kind = "word"
  /\ LET w == probe.w
         tokensRaw == tokenizeIPA(w.phoneme)
     IN probe' = [ kind |-> "alloc", w |-> w, tokensRaw |-> tokensRaw,
                   tokens |-> compressTokens(tokensRaw, Max(0, w.end - w.start)),
                   events |-> wordToVisemeEvents(w) ]
  /\ UNCHANGED << audioCtx, ttsNode, isInitialized, clock, engineVars, isTTSPlaying,
                  workletVars, morphs, last, messages >>

AllocNext == Allocate

SpecAlloc == AllocInit /\ [][AllocNext]_vars

\* C3: compressTokens never returns fewer than 2 tokens when it was given 2 or
\* more tokens, for every token list and every span > 0.
C3_CompressKeepsTwo ==
  (probe.kind = "alloc" /\ probe.w.end > probe.w.start /\ Len(probe.tokensRaw) >= 2)
    => Len(probe.tokens) >= 2

\* C4: for a word with span > 0 whose phoneme string yields at least one token,
\* wordToVisemeEvents returns at least one event, with an onset in [start, end].
C4_AllocatorEmitsEvent ==
  (probe.kind = "alloc" /\ probe.w.end > probe.w.start /\ Len(probe.tokensRaw) >= 1)
    => /\ Len(probe.events) >= 1
       /\ \A k \in 1..Len(probe.events) :
            probe.w.start <= probe.events[k].at /\ probe.events[k].at <= probe.w.end

(***************************************************************************)
(* Properties of the events that reach the pending queue.                  *)
(***************************************************************************)
\* event e is one of the events wordToVisemeEvents makes of word w
GeneratedFrom(e, w) ==
  \E k \in 1..Len(wordToVisemeEvents(w)) :
    wordToVisemeEvents(w)[k].at = e.at /\ wordToVisemeEvents(w)[k].name = e.name

InQueue(e, queue) == \E j \in 1..Len(queue) : queue[j].at = e.at /\ queue[j].name = e.name

\* the words a step turns into events: the pre-roll queue when playback starts,
\* the normalized batch when a delivery arrives
StepWords ==
  { wordQueue[k] : k \in 1..Len(wordQueue) }
    \cup (IF last'.op = "onWordTiming"
            THEN { last'.out.adjusted[k] : k \in 1..Len(last'.out.adjusted) }
            ELSE {})

\* C11: every event a step places in the pending queue (a live delivery or the
\* pre-roll flush, after the curation pass) has its onset within the absolute
\* [start, end] of the word it was generated from.
C11_OnsetWithinSourceWord ==
  [][ \A k \in 1..Len(pendingEvents') :
        ~InQueue(pendingEvents'[k], pendingEvents)
          => \E w \in StepWords :
               /\ GeneratedFrom(pendingEvents'[k], w)
               /\ w.start <= pendingEvents'[k].at
               /\ pendingEvents'[k].at <= w.end ]_vars

\* the pre-roll flush queued an event of a 2ms word whose slot onset lay past the
\* word's end, clamped to that end
C11_Witness ==
  /\ last.op = "ttsPlaybackStarted"
  /\ last.arg
  /\ \E k \in 1..Len(pendingEvents) :
       /\ GeneratedFrom(pendingEvents[k], CleanWords(BatchOf("blip"))[1])
       /\ pendingEvents[k].at = CleanWords(BatchOf("blip"))[1].end

\* C12: an event is promoted at most once and leaves the pending queue in the step
\* that creates its envelope: a frame removes a prefix of the queue and creates
\* exactly one envelope per removed event, every other step creates none, and
\* no curation pass puts a removed event back.
C12_PromotedOncePerEvent ==
  [][ IF clock' # clock  \* only the frame callback reads a later clock
        THEN LET n == last'.out.nPromoted
             IN /\ n >= 0
                /\ n <= Len(pendingEvents)
                /\ pendingEvents' = SubSeq(pendingEvents, n + 1, Len(pendingEvents))
                /\ Len(activeEnvelopes') <= Len(activeEnvelopes) + n
        ELSE Len(activeEnvelopes') <= Len(activeEnvelopes) ]_vars

\* a frame promoted two events at once and later events stayed queued
C12_Witness ==
  /\ last.op = "frame"
  /\ last.out.ran
  /\ last.out.nPromoted >= 2
  /\ pendingEvents # <<>>

\* a step that handles a word_timing message: of the steps that take a websocket
\* message, the only one that posts nothing to the worklet
DeliveryStep == messages' = messages + 1 /\ toWorklet' = toWorklet

\* C13: a delivery that arrives while no anchor is set is only buffered: its
\* valid words, normalized, are appended to the pre-roll queue, and the pending
\* queue, the active set and the dedup set are left as they were.
C13_PrerollDeliveryOnlyBuffers ==
  [][ (DeliveryStep /\ t0 = Null)
        => /\ wordQueue' = wordQueue \o last'.out.adjusted
           /\ \A k \in 1..Len(last'.out.adjusted) :
                last'.out.adjusted[k].start <= last'.out.adjusted[k].end
           /\ pendingEvents' = pendingEvents
           /\ activeEnvelopes' = activeEnvelopes
           /\ seenEvents' = seenEvents ]_vars

\* 'cat' over [0.0, 0.3] arrived first, with no anchor: it is in the pre-roll
\* queue and the pending queue is empty
C13_Witness ==
  /\ last.op = "onWordTiming"
  /\ last.arg = "cat"
  /\ ~last.out.anchored
  /\ t0 = Null
  /\ wordQueue = << [ word |-> CatText, phoneme |-> CatPhoneme, start |-> 0, end |-> 300 * MS ] >>
  /\ pendingEvents = <<>>
  /\ seenEvents = {}

(***************************************************************************)
(* The events of a slow word of single-shape tokens.                       *)
(***************************************************************************)
\* the shapes of the tokens of a word, one list per token
TokenShapes(w) ==
  [ k \in 1..Len(tokenizeIPA(w.phoneme)) |-> resolveTokenToVisemes(tokenizeIPA(w.phoneme)[k]) ]

\* a word of n <= WORD_EVENT_CAP tokens, each of a single shape, with span/n >= MIN_SLOT
SlowSingleShapeWord(w) ==
  /\ ~IsPunctuationOnly(w.word)
  /\ Len(TokenShapes(w)) >= 1
  /\ Len(TokenShapes(w)) <= WORD_EVENT_CAP
  /\ \A k \in 1..Len(TokenShapes(w)) : Len(TokenShapes(w)[k]) = 1
  /\ w.end - w.start >= Len(TokenShapes(w)) * MIN_SLOT

\* the events the claim expects of such a word: the i-th at start + i * (span/n),
\* lasting min(MAX_DUR, span/n)
ExpectedEvents(w) ==
  LET n == Len(TokenShapes(w))
      each == (w.end - w.start) \div n
  IN [ k \in 1..n |-> Event(w.start + (k - 1) * each, TokenShapes(w)[k][1], Min(MAX_DUR, each)) ]

ShapesAlternate(w) ==
  \A k \in 1..(Len(TokenShapes(w)) - 1) : TokenShapes(w)[k] # TokenShapes(w)[k + 1]

\* none of the word's expected events has its key in the dedup set
KeysUnseen(w, seen) ==
  \A i \in 1..Len(ExpectedEvents(w)) : makeEventKey(ExpectedEvents(w)[i]) \notin seen

LastLocalMin == MinOf([ k \in 1..Len(LastClean) |-> LastClean[k].start ])

\* how far the candidate absolute start of the last batch lay before lastAbsEnd
LastBackstep ==
  last.out.segBefore.lastAbsEnd - (last.out.segBefore.segOffset + LastLocalMin)

LastDeliveredValidWords == last.op = "onWordTiming" /\ LastClean # <<>>

LastShiftedBy(offset) ==
  last.out.adjusted = [ k \in 1..Len(LastClean) |-> ShiftWord(LastClean[k], offset) ]

\* C15: when the candidate absolute start precedes lastAbsEnd by more than
\* HARD_RESET_BACKSTEP, segOffset becomes lastAbsEnd + GAP_PAD and every word of
\* the batch is shifted by that offset.
C15_HardResetOpensSegment ==
  (LastDeliveredValidWords /\ LastBackstep > HARD_RESET_BACKSTEP)
    => /\ segState.segOffset = last.out.segBefore.lastAbsEnd + GAP_PAD
       /\ LastShiftedBy(last.out.segBefore.lastAbsEnd + GAP_PAD)

\* a batch starting after 0 came more than 800ms late, where stitching would have
\* given another offset
C15_Witness ==
  /\ LastDeliveredValidWords
  /\ LastBackstep > HARD_RESET_BACKSTEP
  /\ LastLocalMin > 0
  /\ segState.segOffset # last.out.segBefore.segOffset + LastBackstep + GAP_PAD

\* C16: when the candidate precedes lastAbsEnd by more than EPS and at most
\* HARD_RESET_BACKSTEP, segOffset advances by backstep + GAP_PAD and the earliest
\* word lands on lastAbsEnd + GAP_PAD; when the candidate is within EPS of
\* lastAbsEnd or later, segOffset is left as it is.
C16_StitchAdvancesByBackstep ==
  LastDeliveredValidWords =>
    /\ (LastBackstep > EPS /\ LastBackstep <= HARD_RESET_BACKSTEP)
         => /\ segState.segOffset = last.out.segBefore.segOffset + LastBackstep + GAP_PAD
            /\ LastShiftedBy(segState.segOffset)
            /\ MinOf([ k \in 1..Len(last.out.adjusted) |-> last.out.adjusted[k].start ])
                 = last.out.segBefore.lastAbsEnd + GAP_PAD
    /\ LastBackstep <= EPS => segState.segOffset = last.out.segBefore.segOffset

\* a two-word batch starting after 0 was stitched onto a timeline in progress
C16_Witness ==
  /\ LastDeliveredValidWords
  /\ LastBackstep > EPS
  /\ LastBackstep <= HARD_RESET_BACKSTEP
  /\ LastLocalMin > 0
  /\ Len(last.out.adjusted) = 2
  /\ last.out.segBefore.segOffset > 0

\* a batch starting within EPS before lastAbsEnd left segOffset as it was
C16_WitnessTolerance ==
  /\ LastDeliveredValidWords
  /\ LastBackstep > 0
  /\ LastBackstep <= EPS
  /\ segState.segOffset = last.out.segBefore.segOffset

(***************************************************************************)
(* Malformed word timings.                                                 *)
(***************************************************************************)
\* the words of a batch that are not malformed: start and end finite, end >= start
WellFormed(batch) ==
  SelectSeq(batch, LAMBDA w : w.start.finite /\ w.end.finite /\ w.end.v >= w.start.v)

\* C17: a delivery treats its batch as the batch without the malformed words: the
\* words returned and the segOffset and lastAbsEnd left are those of the
\* well-formed words alone; and when no word is well-formed the delivery changes
\* nothing: segState, pre-roll queue, pending queue, active set and dedup set.
C17_MalformedWordsIgnored ==
  [][ DeliveryStep
        => /\ last'.out.adjusted
                = normalizeWordsToAbsolute(segState, WellFormed(BatchOf(last'.arg))).adjusted
           /\ segState' = normalizeWordsToAbsolute(segState, WellFormed(BatchOf(last'.arg))).seg
           /\ WellFormed(BatchOf(last'.arg)) = <<>>
                => /\ segState' = segState
                   /\ wordQueue' = wordQueue
                   /\ pendingEvents' = pendingEvents
                   /\ activeEnvelopes' = activeEnvelopes
                   /\ seenEvents' = seenEvents ]_vars

\* a batch of malformed words only arrived while playing, with events queued and
\* a segment in progress, and left them as they were
C17_Witness ==
  /\ last.op = "onWordTiming"
  /\ last.arg = "malformed"
  /\ last.out.anchored
  /\ last.out.adjusted = <<>>
  /\ pendingEvents # <<>>
  /\ segState = last.out.segBefore
  /\ segState.lastAbsEnd > 0

\* one well-formed word survived among two malformed ones
C17_WitnessMixed ==
  /\ last.op = "onWordTiming"
  /\ last.arg = "mixed"
  /\ Len(BatchOf("mixed")) = 3
  /\ Len(last.out.adjusted) = 1
  /\ segState.lastAbsEnd = last.out.adjusted[1].end

(***************************************************************************)
(* Frames before playback.                                                 *)
(***************************************************************************)
\* a step of the frame callback: it sets last to a frame record and is none of
\* the steps that take a websocket message or move the worklet or its ports
FrameStep ==
  /\ last'.op = "frame"
  /\ messages' = messages
  /\ isInitialized' = isInitialized
  /\ audioCtx' = audioCtx
  /\ workletVars' = workletVars

\* C18: a frame with no audio clock or no anchor promotes nothing, leaves the
\* pending queue and the active set as they were and writes nothing to the sink.
C18_IdleFrameIsNoOp ==
  [][ (FrameStep /\ (~audioCtx \/ t0 = Null))
        => /\ last'.out.nPromoted = 0
           /\ last'.out.writes = NoWrites
           /\ pendingEvents' = pendingEvents
           /\ activeEnvelopes' = activeEnvelopes
           /\ morphs' = morphs
           /\ t0' = t0 ]_vars

\* a frame came after playback was stopped, with the sink still displaced from
\* neutral, and left it alone
C18_Witness ==
  /\ last.op = "frame"
  /\ ~last.out.ran
  /\ audioCtx
  /\ t0 = Null
  /\ \E n \in Shapes : morphs[n] > 0

(***************************************************************************)
(* The main thread and the worklet.                                        *)
(***************************************************************************)
\* the worklet node exists and no message is in flight on either port
PortsQuiet == ttsNode /\ toWorklet = <<>> /\ toMain = <<>>

\* C19: once every in-flight port message has been handled, the anchor is set
\* exactly when the worklet's isPlaying flag is true, and isTTSPlayingRef agrees
\* with the worklet.
C19_AnchorTracksWorklet ==
  PortsQuiet =>
    /\ (t0 # Null) <=> wIsPlaying
    /\ isTTSPlaying <=> wIsPlaying

(***************************************************************************)
(* The dedup set.                                                          *)
(***************************************************************************)
\* the 10ms bucket of the onset a dedup key records: a live key holds the bucket,
\* a pre-roll key holds the onset in milliseconds
KeyBucket(key) == IF key.digits = 2 THEN key.t ELSE (2 * key.t + 10) \div 20

\* C20: within one segment no two events are accepted with the same shape name
\* and the same 10ms onset bucket, through the live path or the pre-roll flush:
\* the dedup set never holds two keys of one shape and one bucket.
C20_OneEventPerShapeAndBucket ==
  \A k1 \in seenEvents : \A k2 \in seenEvents :
    (k1.name = k2.name /\ KeyBucket(k1) = KeyBucket(k2)) => k1 = k2

(***************************************************************************)
(* The pre-roll flush against the live path.                               *)
(***************************************************************************)
\* the step in which the port handler takes a playback-start and sets the anchor
StartStep == t0 = Null /\ t0' # Null

\* C21: the pre-roll flush leaves the pending queue that pushWordsToTimeline
\* would leave if the buffered words were delivered right after the start: the
\* same punctuation filter, deduplication, merge and rate limit.
C21_FlushEqualsLivePush ==
  [][ (StartStep /\ wordQueue # <<>>)
        => pendingEvents' = pushWordsToTimeline(wordQueue, seenEvents, pendingEvents).pending ]_vars

(***************************************************************************)
(* Frames that keep coming.  The frame callback returns before it reads    *)
(* the audio clock when there is no context or no anchor, so such a frame  *)
(* is not held back by the bound on the clock.                             *)
(***************************************************************************)
IdleFrame ==
  /\ ~FrameRuns
  /\ UNCHANGED << audioCtx, ttsNode, isInitialized, clock, engineVars, isTTSPlaying,
                  workletVars, morphs, aux >>
  /\ last' = Op("frame", 0, [ ran |-> FALSE, writes |-> NoWrites, nPromoted |-> 0 ])

Frame == IdleFrame \/ \E rawDt \in FrameDeltas : Tick(rawDt)

LiveBatches == { "cat" }

LiveNext ==
  \/ InitTTSPlayback
  \/ CleanupAudio
  \/ messages < MaxMessages /\ PlayTTSChunk
  \/ messages < MaxMessages /\ StopTTSPlayback
  \/ WorkletOnMessage
  \/ WorkletProcess
  \/ PortOnMessage
  \/ \E b \in LiveBatches : messages < MaxMessages /\ OnWordTiming(b)
  \/ \E rawDt \in FrameDeltas : Tick(rawDt)
  \/ IdleFrame

\* what a frame can change of the engine
frameVars == << clock, pendingEvents, activeEnvelopes, morphs >>

\* the render loop calls the frame callback on every frame
SpecLive == Init /\ [][LiveNext]_vars /\ WF_frameVars(Frame)

Neutral == \A n \in Shapes : morphs[n] = 0

\* C22: after a playback-stop, with frames coming, every shape intensity on the
\* sink eventually reaches neutral, unless playback starts again or the audio
\* context is torn down.
C22_SinkRelaxesAfterStop == PlaybackStopRan ~> (Neutral \/ t0 # Null \/ ~audioCtx)

(***************************************************************************)
(* C23: who wins a rate-limit conflict.                                    *)
(***************************************************************************)
VowelShapes == { "viseme_aa", "viseme_E", "viseme_I", "viseme_O", "viseme_U" }

\* the shapes of stops, sibilants, nasals, liquids and the rest
LowShapes == Shapes \ (VowelShapes \cup { "viseme_CH", "viseme_PP" })

\* the sorted candidate list a curating delivery hands to decimateTimeline
SortedOnDelivery ==
  SortByAt(PushWordsFrom(SortByStart(last'.out.adjusted), 1, seenEvents, pendingEvents).pending)

\* the events kept once the rate limiter has walked the first i entries
KeptAfter(merged, i) == RateLimitFrom(SubSeq(merged, 1, i), 1, <<>>)

\* the rate limiter meets entry i less than MIN_EVENT_GAP after the last kept onset
Conflict(merged, i) ==
  LET keep == KeptAfter(merged, i - 1)
  IN keep # <<>> /\ merged[i].at - keep[Len(keep)].at < MIN_EVENT_GAP

CuratingDelivery == DeliveryStep /\ AnchorSet /\ last'.out.curated

\* C23: in every rate-limit conflict of a curating delivery, an incoming vowel
\* shape replaces a previously kept stop, sibilant, nasal or liquid shape.
C23_VowelShapeWinsConflict ==
  [][ CuratingDelivery =>
        \A c \in { SortedOnDelivery } : \A merged \in { MergeFrom(c, 1, <<>>) } :
          \A i \in 1..Len(merged) :
            LET prev == KeptAfter(merged, i - 1)
                now == KeptAfter(merged, i)
            IN ( /\ Conflict(merged, i)
                 /\ merged[i].name \in VowelShapes
                 /\ prev[Len(prev)].name \in LowShapes )
               => now[Len(now)] = merged[i] ]_vars

(***************************************************************************)
(* C24: what a rate-limit conflict leaves of the two events.               *)
(***************************************************************************)
\* the previous event as the winning branch leaves it: prev.duration = max(0, e.at - prev.at)
Truncated(prev, e) == [prev EXCEPT !.duration = Max(0, e.at - prev.at)]

\* C24: in every rate-limit conflict of a curating delivery, a winning incoming
\* event is kept after the previous one, which stays with its duration cut to
\* (incoming onset - previous onset); a losing incoming event is dropped and
\* the kept events are unchanged.
C24_ConflictKeepsTruncatedPrevious ==
  [][ CuratingDelivery =>
        \A c \in { SortedOnDelivery } : \A merged \in { MergeFrom(c, 1, <<>>) } :
          \A i \in 1..Len(merged) :
            Conflict(merged, i) =>
              LET prev == KeptAfter(merged, i - 1)
                  now == KeptAfter(merged, i)
                  n == Len(prev)
                  e == merged[i]
              IN IF prefer(e) > prefer(prev[n])
                   THEN now = Append([prev EXCEPT ![n] = Truncated(prev[n], e)], e)
                   ELSE now = prev ]_vars

(***************************************************************************)
(* C25: the order in which step 3 of compressTokens removes tokens.        *)
(***************************************************************************)
\* a plain vowel, a vowel+rhotic pair or a vowel diphthong, as the tokenizer emits them
VocalicToken(t) ==
  \/ Len(t) = 1 /\ t[1] \in VOWELS
  \/ Len(t) = 2 /\ t[1] \in VOWELS /\ t[2] \in RHOTICS
  \/ t \in DIPHTHONGS \ AFFRIC

\* every removal of the while loop of step 3 respects the order: a vocalic
\* token goes only when all tokens are vocalic, an affricate only when no
\* other consonant is left
RECURSIVE DropOrderOK(_, _)
DropOrderOK(out, target) ==
  IF Len(out) <= target THEN TRUE
  ELSE LET t == out[DropIdx(out)]
       IN /\ VocalicToken(t) => \A j \in 1..Len(out) : VocalicToken(out[j])
          /\ t \in AFFRIC => \A j \in 1..Len(out) : VocalicToken(out[j]) \/ out[j] \in AFFRIC
          /\ DropOrderOK(RemoveAt(out, DropIdx(out)), target)

\* the word of the probe is compressed (compressTokens does not return early)
Compresses(tokens, span) ==
  tokens # <<>> /\ ~(span >= MIN_SLOT * Len(tokens) /\ Len(tokens) <= WORD_EVENT_CAP)

\* C25: in step 3 of compressTokens a vowel token (plain vowel, vowel+rhotic,
\* diphthong) is removed only when no consonant token remains, and an
\* affricate only after every other consonant.
C25_VowelsAndAffricatesDroppedLast ==
  probe.kind = "alloc" =>
    LET span == Max(0, probe.w.end - probe.w.start)
    IN Compresses(probe.tokensRaw, span) =>
         DropOrderOK(DropWeak(probe.tokensRaw),
                     Min(WORD_EVENT_CAP, Max(KEEP_AT_LEAST, CeilDiv(span, MIN_SLOT))))

(***************************************************************************)
(* The tokenizer and the resolver alone: every phoneme string of one or    *)
(* two characters over the vowels, the rhotics and a stop is tokenized     *)
(* and each token resolved.                                                *)
(***************************************************************************)
\* "y" is in no table
ResolveChars == VOWELS \cup RHOTICS \cup { "k", "y" }

ResolveStrings == { <<a>> : a \in ResolveChars } \cup (ResolveChars \X ResolveChars)

ResolveInit ==
  /\ EngineInit
  /\ probe \in { [ kind |-> "phoneme", phoneme |-> ph ] : ph \in ResolveStrings }

Resolve ==
  /\ probe.kind = "phoneme"
  /\ LET tokens == tokenizeIPA(probe.phoneme)
     IN probe' = [ kind |-> "resolved", phoneme |-> probe.phoneme, tokens |-> tokens,
                   shapes |-> [ i \in 1..Len(tokens) |-> resolveTokenToVisemes(tokens[i]) ] ]
  /\ UNCHANGED << audioCtx, ttsNode, isInitialized, clock, engineVars, isTTSPlaying,
                  workletVars, morphs, last, messages >>

ResolveNext == Resolve

SpecResolve == ResolveInit /\ [][ResolveNext]_vars

VowelRhoticToken(t) == Len(t) = 2 /\ t[1] \in VOWELS /\ t[2] \in RHOTICS

\* C26: every vowel+rhotic token the tokenizer produces resolves to exactly
\* two shapes, the shape of its vowel and then viseme_RR.
C26_VowelRhoticResolvesToTwoShapes ==
  probe.kind = "resolved" =>
    \A i \in 1..Len(probe.tokens) :
      VowelRhoticToken(probe.tokens[i]) =>
        /\ Len(probe.shapes[i]) = 2
        /\ probe.shapes[i][2] = "viseme_RR"
        /\ InVMap(probe.tokens[i][1]) => probe.shapes[i][1] = V_MAP[probe.tokens[i][1]]

(***************************************************************************)
(* C27: same-shape neighbours after a curation pass.                       *)
(***************************************************************************)
\* entries i and i+1 of a list have the same shape and the second starts at
\* most MERGE_SAME_GAP after the end of the first
MergeablePair(evs, i) ==
  /\ evs[i].name = evs[i + 1].name
  /\ evs[i + 1].at - (evs[i].at + evs[i].duration) <= MERGE_SAME_GAP

NoMergeablePair(evs) == \A i \in 1..(Len(evs) - 1) : ~MergeablePair(evs, i)

CurationRan == last.op = "onWordTiming" /\ last.out.curated

EndOf(e) == e.at + e.duration

\* merged event m stands for input event e
Covers(m, e) ==
  m.name = e.name /\ m.at <= e.at /\ EndOf(m) >= EndOf(e) /\ m.peak >= e.peak

RunningFrameStep == clock' # clock /\ FrameRuns

\* C28: a frame that runs with the anchor set, at now = clock - anchor, moves
\* every pending event with onset <= now to the active set in onset order and
\* activates none with onset > now, so no envelope starts before its onset.
C28_FramePromotesExactlyDueEvents ==
  [][ RunningFrameStep =>
        LET now == clock' - t0[1]
            n == last'.out.nPromoted
        IN /\ n = Cardinality({ k \in 1..Len(pendingEvents) : pendingEvents[k].at <= now })
           /\ \A k \in 1..n : pendingEvents[k].at <= now
           /\ SortedByOnset(SubSeq(pendingEvents, 1, n))
           /\ pendingEvents' = SubSeq(pendingEvents, n + 1, Len(pendingEvents))
           /\ \A k \in 1..Len(pendingEvents') : pendingEvents'[k].at > now ]_vars

\* a frame promoted the due events and a later one is still queued
C28_Witness ==
  /\ last.op = "frame"
  /\ last.out.ran
  /\ last.out.nPromoted >= 1
  /\ t0 # Null
  /\ pendingEvents # <<>>
  /\ pendingEvents[1].at > clock - t0[1]

(***************************************************************************)
(* C29: the flush of the pre-roll queue when playback starts.              *)
(***************************************************************************)
\* the step in which the port handler runs onPlaybackStarted
PlaybackStartStep == last'.op = "ttsPlaybackStarted" /\ last'.arg

\* the events of the queued words, every word converted once, in queue order
RECURSIVE QueueEvents(_)
QueueEvents(ws) ==
  IF ws = <<>> THEN <<>> ELSE wordToVisemeEvents(Head(ws)) \o QueueEvents(Tail(ws))

\* entry i of all is the first event with its key, and the key was not seen before
FirstOfKey(all, i, seen) ==
  /\ PrerollEventKey(all[i]) \notin seen
  /\ \A j \in 1..(i - 1) : PrerollEventKey(all[j]) # PrerollEventKey(all[i])

C30_BatchStartsNoEarlierThanTimelineEnd ==
  LastDeliveredValidWords =>
    MinOf([ k \in 1..Len(last.out.adjusted) |-> last.out.adjusted[k].start ])
      >= last.out.segBefore.lastAbsEnd - EPS

(***************************************************************************)
(* C31: the countdown of the active envelopes.                             *)
(***************************************************************************)
\* the envelopes a running frame counts down: the active set and the ones it promotes
CountedDown ==
  activeEnvelopes \o [ k \in 1..last'.out.nPromoted |-> Envelope(pendingEvents[k]) ]

\* C31: on every frame that runs, each envelope loses min(max(dt, 0), 100 ms)
\* of its remaining time, a positive amount, and is pruned exactly when the
\* remainder is <= 0; no other step puts time back or adds an envelope, so an
\* envelope is gone after finitely many frames.
C31_EnvelopesCountDownAndExpire ==
  [][ IF RunningFrameStep
        THEN \A before \in { CountedDown } :
               LET dt == Min(Max(last'.arg, 0), MaxFrameDt)
                   alive == { k \in 1..Len(before) : before[k].timeLeft - dt > 0 }
               IN /\ dt > 0
                  /\ Len(activeEnvelopes') = Cardinality(alive)
                  /\ \A j \in 1..Len(activeEnvelopes') :
                       /\ activeEnvelopes'[j].timeLeft > 0
                       /\ \E k \in alive :
                            activeEnvelopes'[j] = [before[k] EXCEPT !.timeLeft = @ - dt]
        ELSE activeEnvelopes' = activeEnvelopes \/ activeEnvelopes' = <<>> ]_vars

\* a frame wrote the value of an envelope promoted by an earlier frame and pruned it
C31_Witness ==
  /\ last.op = "frame"
  /\ last.out.ran
  /\ last.out.nPromoted = 0
  /\ \E n \in Shapes : last.out.writes[n] > 0
  /\ activeEnvelopes = <<>>

(***************************************************************************)
(* The frame callback on overlapping envelopes: playback is running and    *)
(* the active set holds up to two envelopes of events that the pre-roll    *)
(* flush queued without curation, each somewhere in its countdown.         *)
(***************************************************************************)
AggShapes == { "viseme_aa", "viseme_PP", "viseme_RR" }

\* durations of a 100 ms slot and of a capped slow slot, with the time left after
\* zero or more 50 ms frames
AggEnvelopes ==
  { [ Envelope(Event(0, n, d[1] * MS)) EXCEPT !.timeLeft = d[2] * MS ] :
      n \in AggShapes,
      d \in { <<100, 100>>, <<100, 50>>, <<180, 180>>, <<180, 130>>, <<180, 80>>, <<180, 30>> } }

AggActiveSets ==
  { <<>> } \cup { <<e>> : e \in AggEnvelopes } \cup (AggEnvelopes \X AggEnvelopes)

AggInit ==
  /\ audioCtx = TRUE
  /\ ttsNode = TRUE
  /\ isInitialized = TRUE
  /\ clock = 0
  /\ \/ t0 = Some(0) /\ isTTSPlaying = TRUE /\ wIsPlaying = TRUE
        /\ activeEnvelopes \in AggActiveSets
     \/ t0 = Null /\ isTTSPlaying = FALSE /\ wIsPlaying = FALSE /\ activeEnvelopes = <<>>
  /\ segState = FreshSeg
  /\ wordQueue = <<>>
  /\ pendingEvents = <<>>
  /\ seenEvents = {}
  /\ wSamples = 0
  /\ toWorklet = <<>>
  /\ toMain = <<>>
  /\ morphs = NoWrites
  /\ last = Op("init", "", NoOut)
  /\ messages = 0
  /\ probe = NoProbe

AggNext == \E rawDt \in FrameDeltas : Tick(rawDt)

SpecAgg == AggInit /\ [][AggNext]_vars

\* the values the envelopes of shape n contribute in a frame: min(0.9, value * gain)
\* of every envelope of the shape with a positive value
Contributions(envs, n) ==
  { Min(MORPH_CAP, (envValueFromCountdown(envs[k]) * GainOf(n)) \div ONE) :
      k \in { k \in 1..Len(envs) : envs[k].name = n /\ envValueFromCountdown(envs[k]) > 0 } }

\* C32: in a frame that runs, the value written for a shape is the maximum of
\* the contributions of the active envelopes of that shape, whatever their
\* order; a shape with no contribution is not written, and the sink takes the
\* one written value (then the global decay).
C32_WritesPerShapeMaximum ==
  [][ RunningFrameStep =>
        \A before \in { CountedDown } : \A n \in Shapes :
          LET vals == Contributions(before, n)
              w == last'.out.writes[n]
          IN /\ vals = {} => w = 0
             /\ vals # {} => w \in vals /\ \A v \in vals : v <= w
             /\ morphs'[n] = ((IF w > 0 THEN w ELSE morphs[n]) * DecayFactor) \div ONE ]_vars

\* a frame saw two viseme_RR envelopes with different positive values, the larger
\* one first, and wrote the larger
C32_Witness ==
  /\ last.op = "frame"
  /\ last.out.ran
  /\ last.out.writes["viseme_RR"] = 6000
  /\ Len(activeEnvelopes) = 1
  /\ activeEnvelopes[1].name = "viseme_RR"
  /\ activeEnvelopes[1].timeLeft = 80 * MS
  /\ morphs["viseme_RR"] = (6000 * DecayFactor) \div ONE

(***************************************************************************)
(* C33: how many tokens compressTokens returns.                            *)
(***************************************************************************)
\* C33: compressTokens returns at most 4 tokens; when it compresses (naive slot
\* under 100 ms or more than 4 tokens) it returns at most
\* max(2, min(4, ceil(span / 100 ms))) tokens, and otherwise the list unchanged.
C33_CompressedWithinTarget ==
  probe.kind = "alloc" =>
    LET span == Max(0, probe.w.end - probe.w.start)
    IN /\ Len(probe.tokens) <= 4
       /\ Compresses(probe.tokensRaw, span)
            => Len(probe.tokens) <= Max(2, Min(4, CeilDiv(span, MIN_SLOT)))
       /\ ~Compresses(probe.tokensRaw, span) => probe.tokens = probe.tokensRaw

\* five tokens on 500 ms have a slot of 100 ms and are cut to the cap of four
C33_Witness ==
  /\ probe.kind = "alloc"
  /\ Len(probe.tokensRaw) = 5
  /\ probe.w.end - probe.w.start = 500 * MS
  /\ Len(probe.tokens) = 4

(***************************************************************************)
(* C34: resolveTokenToVisemes is total.                                    *)
(***************************************************************************)
\* the token is a key of C_MAP or V_MAP, a member of DIPHTHONGS, or a
\* vowel+rhotic pair
InSomeTable(t) ==
  \/ t \in DIPHTHONGS
  \/ t \in C_MAP2
  \/ Len(t) = 1 /\ (InCMap(t[1]) \/ InVMap(t[1]))
  \/ VowelRhoticToken(t)

\* C34: every token resolves to one or two shape names, never to an empty
\* list, and a token that is in no table resolves to viseme_E alone.
C34_ResolveIsTotal ==
  probe.kind = "resolved" =>
    \A i \in 1..Len(probe.tokens) :
      /\ Len(probe.shapes[i]) \in { 1, 2 }
      /\ \A k \in 1..Len(probe.shapes[i]) : probe.shapes[i][k] \in Shapes
      /\ ~InSomeTable(probe.tokens[i]) => probe.shapes[i] = <<"viseme_E">>

\* a character of no table was resolved to the neutral shape
C34_Witness ==
  /\ probe.kind = "resolved"
  /\ probe.tokens = << <<"y">> >>
  /\ probe.shapes = << <<"viseme_E">> >>

(***************************************************************************)
(* C35: curating a curated queue again.                                    *)
(***************************************************************************)
\* C35: the queue a curation pass leaves is a fixed point of decimateTimeline,
\* so that a later pass that adds no event leaves it as it is.
C35_CurationIsIdempotent ==
  CurationRan => decimateTimeline(pendingEvents) = pendingEvents

(***************************************************************************)
(* C36: rate-limit conflicts between events of equal score.                *)
(***************************************************************************)
\* C36: in a rate-limit conflict between two events of equal visibility score
\* the kept events stay as they are and the incoming event is dropped, and the
\* queue a curating delivery leaves is decimateTimeline of its sorted
\* candidate list.
C36_TieKeepsEarlierEvent ==
  [][ CuratingDelivery =>
        \A c \in { SortedOnDelivery } : \A merged \in { MergeFrom(c, 1, <<>>) } :
          /\ pendingEvents' = decimateTimeline(c)
          /\ \A i \in 1..Len(merged) :
               LET prev == KeptAfter(merged, i - 1)
               IN (Conflict(merged, i) /\ prefer(merged[i]) = prefer(prev[Len(prev)]))
                    => KeptAfter(merged, i) = prev ]_vars

\* of the six events of "cat" and "hi", three lost a conflict on equal scores:
\* viseme_E@0.1 against viseme_aa@0.1, viseme_aa@0.2 against viseme_DD@0.2
C36_Witness ==
  /\ CurationRan
  /\ last.arg = "cat_hi"
  /\ last.out.nSorted = 6
  /\ Len(pendingEvents) = 3
  /\ pendingEvents[2].name = "viseme_aa"
  /\ pendingEvents[3].name = "viseme_DD"
  /\ prefer(pendingEvents[2]) = prefer(pendingEvents[3])

(***************************************************************************)
(* fitRamps alone: every duration, attack and decay of a small set of      *)
(* millisecond values is fitted.                                           *)
(***************************************************************************)
RampDurations == { 0, 10, 25, 50, 70, 100, 200 }

RampRequests == { -10, 0, 10, 30, 40, 60, 100 }

RampsInit ==
  /\ EngineInit
  /\ probe \in { [ kind |-> "ramps", duration |-> dur * MS, attack |-> at * MS,
                   decay |-> dc * MS ] :
                 dur \in RampDurations, at \in RampRequests, dc \in RampRequests }

FitRamps ==
  /\ probe.kind = "ramps"
  /\ LET r == fitRamps(probe.duration, probe.attack, probe.decay)
     IN probe' = [ kind |-> "fitted", duration |-> probe.duration,
                   attack |-> probe.attack, decay |-> probe.decay,
                   a |-> r.a, d |-> r.d ]
  /\ UNCHANGED << audioCtx, ttsNode, isInitialized, clock, engineVars, isTTSPlaying,
                  workletVars, morphs, last, messages >>

RampsNext == FitRamps

SpecRamps == RampsInit /\ [][RampsNext]_vars

\* both ramps non-negative, each at most 40% of the duration, together at
\* most the duration
RampsWithinDuration ==
  probe.kind = "fitted" =>
    /\ probe.a >= 0 /\ probe.d >= 0
    /\ 10 * probe.a <= 4 * probe.duration
    /\ 10 * probe.d <= 4 * probe.duration
    /\ probe.a + probe.d <= probe.duration

\* a / max(0, attack) = d / max(0, decay), cross-multiplied
RampsScaledAlike ==
  probe.kind = "fitted" =>
    (Max(0, probe.attack) + Max(0, probe.decay) > probe.duration
       => probe.a * Max(0, probe.decay) = probe.d * Max(0, probe.attack))

\* C37: for every duration >= 0 and every requested attack and decay, fitRamps
\* returns non-negative ramps, each at most 40% of the duration and together
\* at most the duration, and when the requested ramps together exceed the
\* duration both are scaled down by the same factor.
C37_RampsFitAndScaleAlike == RampsWithinDuration /\ RampsScaledAlike

====
